---- MODULE Spec2Model ----
(***************************************************************************)
(* A model of woltka/file.py: resolution of sample IDs to files            *)
(* (id2file_from_dir, id2file_from_map), the mapping record parser         *)
(* (read_map), the read-map writer (write_readmap) and the profile table   *)
(* builders (write_table, prep_table).                                     *)
(*                                                                         *)
(* A Python str is modelled as a sequence of one-character strings, so     *)
(* that stripping, splitting, joining and comparing are computed, not      *)
(* assumed.  Every function of the module is a pure function of its        *)
(* arguments and of the file system it reads; one call is one action.      *)
(* args holds the arguments (and the part of the file system the call      *)
(* reads), env the last answer of the operating system (the listing of     *)
(* the directory, whose order is its choice), ret the outcomes of the      *)
(* calls made so far.                                                      *)
(***************************************************************************)
EXTENDS Naturals, Integers, Sequences, FiniteSets, TLC

VARIABLES args, env, ret
vars == <<args, env, ret>>

(***************************************************************************)
(* Bounds of the model.                                                    *)
(***************************************************************************)
MaxLines == 3      \* lines of a map file / of a read_map input
MaxScans == 2      \* scans of one directory within one behaviour
MaxDirEntries == 4 \* entries of the scanned directory
MaxReads == 2      \* reads of a read map
MaxSamples == 2    \* samples of a profile

(***************************************************************************)
(* Python values.                                                          *)
(***************************************************************************)
None == [kind |-> "None"]
List(v) == [kind |-> "list", value |-> v]
Str(s) == [kind |-> "str", value |-> s]
Dict(f) == [kind |-> "dict", value |-> f]
\* a dict that is iterated: its items in insertion order
DictItems(items) == [kind |-> "dict", value |-> items]
Return(v) == [outcome |-> "return", value |-> v]
Raise(exc, text) == [outcome |-> "raise", exc |-> exc, text |-> text]

TAB == "\t"

\* code point of a character (ord), for the characters the model uses
Ord(c) ==
    CASE c = "\t" -> 9   [] c = "\n" -> 10  [] c = "\f" -> 12 [] c = "\r" -> 13
      [] c = "" -> 11  [] c = "" -> 28  [] c = "" -> 29  [] c = "" -> 30
      [] c = "" -> 31  [] c = "" -> 133 [] c = " " -> 160
      [] c = " " -> 5760
      [] c = " " -> 32   [] c = "#" -> 35   [] c = "," -> 44
      [] c = "." -> 46   [] c = "/" -> 47   [] c = "0" -> 48  [] c = "1" -> 49
      [] c = "2" -> 50   [] c = "3" -> 51   [] c = "4" -> 52  [] c = "5" -> 53
      [] c = "6" -> 54   [] c = "7" -> 55   [] c = "8" -> 56  [] c = "9" -> 57
      [] c = ":" -> 58   [] c = "A" -> 65   [] c = "B" -> 66  [] c = "G" -> 71
      [] c = "S" -> 83   [] c = "Z" -> 90   [] c = "a" -> 97  [] c = "b" -> 98
      [] c = "c" -> 99   [] c = "d" -> 100  [] c = "f" -> 102 [] c = "g" -> 103
      [] c = "m" -> 109  [] c = "r" -> 114  [] c = "s" -> 115 [] c = "t" -> 116
      [] c = "v" -> 118  [] c = "x" -> 120  [] c = "y" -> 121 [] c = "z" -> 122
      [] c = "|" -> 124

\* str < str: lexicographic by code point
RECURSIVE str_lt(_, _)
str_lt(s, t) ==
    IF t = <<>> THEN FALSE
    ELSE IF s = <<>> THEN TRUE
    ELSE IF s[1] # t[1] THEN Ord(s[1]) < Ord(t[1])
    ELSE str_lt(Tail(s), Tail(t))

\* the characters str.rstrip() removes (str.isspace) among the characters a
\* string of this module can hold: U+0009..U+000D, U+001C..U+001F, U+0020,
\* U+0085, U+00A0, U+1680 (U+2000..U+200A, U+2028, U+2029, U+202F, U+205F
\* and U+3000 cannot be written in a string of the module)
isspace(c) ==
    c \in {"\t", "\n", "", "\f", "\r", "", "", "", "", " ",
           "", " ", " "}

RECURSIVE rstrip(_)
rstrip(s) ==
    IF s = <<>> THEN s
    ELSE IF isspace(s[Len(s)]) THEN rstrip(SubSeq(s, 1, Len(s) - 1))
    ELSE s

startswith(s, p) == Len(s) >= Len(p) /\ SubSeq(s, 1, Len(p)) = p
endswith(s, p) == Len(s) >= Len(p) /\ SubSeq(s, Len(s) - Len(p) + 1, Len(s)) = p

\* s.split(sep) for a one-character separator
RECURSIVE split(_, _)
split(s, sep) ==
    IF \A i \in 1..Len(s) : s[i] # sep THEN <<s>>
    ELSE LET i == CHOOSE k \in 1..Len(s) :
                      s[k] = sep /\ \A j \in 1..(k - 1) : s[j] # sep
         IN <<SubSeq(s, 1, i - 1)>> \o split(SubSeq(s, i + 1, Len(s)), sep)

\* sep.join(row)
RECURSIVE str_join(_, _)
str_join(sep, row) ==
    IF row = <<>> THEN <<>>
    ELSE IF Len(row) = 1 THEN row[1]
    ELSE row[1] \o <<sep>> \o str_join(sep, Tail(row))

\* s.rfind(c) + 1: the last position of c in s, 0 when absent
rfind1(s, c) ==
    IF \A i \in 1..Len(s) : s[i] # c THEN 0
    ELSE CHOOSE i \in 1..Len(s) : s[i] = c /\ \A j \in (i + 1)..Len(s) : s[j] # c

RECURSIVE rstrip_char(_, _)
rstrip_char(s, c) ==
    IF s # <<>> /\ s[Len(s)] = c THEN rstrip_char(SubSeq(s, 1, Len(s) - 1), c)
    ELSE s

\* posixpath.dirname
dirname(p) ==
    LET head == SubSeq(p, 1, rfind1(p, "/"))
    IN IF head # <<>> /\ (\E i \in 1..Len(head) : head[i] # "/")
       THEN rstrip_char(head, "/") ELSE head

\* posixpath.join of two components
path_join(a, b) ==
    IF startswith(b, <<"/">>) THEN b
    ELSE IF a = <<>> \/ endswith(a, <<"/">>) THEN a \o b
    ELSE a \o <<"/">> \o b

\* os.path.isfile against the regular files that exist
isfile(files, p) == p \in files

\* all sequences over S of length at most n
SeqUpTo(S, n) == UNION {[1..k -> S] : k \in 0..n}

(***************************************************************************)
(* id2file_from_map                                                        *)
(***************************************************************************)
\* the loop's variables on entry: res = [], fdir = dirname(fp); out is the
\* outcome once the loop has been left by return or raise
map_init(fp) ==
    [res |-> <<>>, fdir |-> dirname(fp), fp |-> fp, out |-> [outcome |-> "none"]]

\* a line that does not unpack into two columns: return (None), on any line
map_bad_columns(st) ==
    [st EXCEPT !.out = Return(None)]

\* (variant: the pairs accepted so far are returned)
map_missing_partial(st, file_) ==
    [st EXCEPT !.out = IF st.res # <<>> THEN Return(List(st.res))
                       ELSE Return(None)]
\* neither path exists: raise when earlier lines were accepted, else return
map_missing(st, file_) ==
    [st EXCEPT !.out =
        IF st.res # <<>>
        THEN Raise("ValueError",
                   <<"Alignment file \"", file_, "\" does not exist.">>)
        ELSE Return(None)]

\* (variant: the directory searched follows the reassigned fp)
map_resolve_moving_dir(st, id_, file_, files) ==
    LET fp == path_join(dirname(st.fp), file_)
    IN IF isfile(files, file_)
       THEN [st EXCEPT !.res = Append(st.res, <<id_, file_>>)]
       ELSE IF isfile(files, fp)
       THEN [st EXCEPT !.res = Append(st.res, <<id_, fp>>), !.fp = fp]
       ELSE map_missing([st EXCEPT !.fp = fp], file_)
\* the path as given, then the path in the directory of the mapping file
map_resolve(st, id_, file_, files) ==
    LET fp == path_join(st.fdir, file_)
    IN IF isfile(files, file_)
       THEN [st EXCEPT !.res = Append(st.res, <<id_, file_>>)]
       ELSE IF isfile(files, fp)
       THEN [st EXCEPT !.res = Append(st.res, <<id_, fp>>), !.fp = fp]
       ELSE map_missing([st EXCEPT !.fp = fp], file_)

\* the body of the loop for one line of the file
map_line(st, raw, files) ==
    LET line == rstrip(raw)
    IN IF line = <<>> \/ startswith(line, <<"#">>) THEN st
       ELSE LET row == split(line, TAB)
            IN IF Len(row) # 2 THEN map_bad_columns(st)
               ELSE map_resolve(st, row[1], row[2], files)

RECURSIVE map_loop(_, _, _, _)
map_loop(st, fh, i, files) ==
    IF st.out.outcome # "none" THEN st.out
    ELSE IF i > Len(fh) THEN Return(IF st.res # <<>> THEN List(st.res) ELSE None)
    ELSE map_loop(map_line(st, fh[i], files), fh, i + 1, files)

id2file_from_map(fp, fh, files) == map_loop(map_init(fp), fh, 1, files)

\* --- inputs -------------------------------------------------------------
MapPaths == { <<"m">>, <<"d", "/", "m">> }
MapLines ==
    { <<>>, <<" ", " ", "\f">>, <<"#", "c">>,
      <<"a", TAB, "x">>, <<"b", TAB, "y">>, <<"a", TAB, "s", "/", "x">>,
      <<"a">>, <<"a", TAB, "x", TAB, "y">>, <<"b", TAB, "y", TAB>> }
MapFileSystems ==
    { {},
      { <<"x">>, <<"y">> },
      { <<"d", "/", "x">>, <<"d", "/", "y">> },
      { <<"x">>, <<"d", "/", "y">> },
      { <<"d", "/", "s", "/", "x">>, <<"d", "/", "y">> },
      { <<"d", "/", "s", "/", "x">>, <<"d", "/", "s", "/", "y">> } }

InitMap ==
    /\ args \in [op : {"id2file_from_map"}, fp : MapPaths,
                 fh : SeqUpTo(MapLines, MaxLines), files : MapFileSystems]
    /\ env = <<>>
    /\ ret = <<>>

CallMap ==
    /\ args.op = "id2file_from_map"
    /\ ret = <<>>
    /\ ret' = <<id2file_from_map(args.fp, args.fh, args.files)>>
    /\ UNCHANGED <<args, env>>

SpecMap == InitMap /\ [][CallMap]_vars
\* --- the file as the claims describe it -----------------------------------
MapSkipped(l) == rstrip(l) = <<>> \/ rstrip(l)[1] = "#"
MapColumns(l) == split(rstrip(l), TAB)
MapKeptLine(l) == ~MapSkipped(l)
MapKept(fh) == SelectSeq(fh, MapKeptLine)
MapResolves(file_) ==
    file_ \in args.files \/ path_join(dirname(args.fp), file_) \in args.files
MapGood(l) == Len(MapColumns(l)) = 2 /\ MapResolves(MapColumns(l)[2])
MapPair(l) ==
    LET c == MapColumns(l)
    IN <<c[1], IF c[2] \in args.files THEN c[2]
               ELSE path_join(dirname(args.fp), c[2])>>
\* kept line k is reached by the loop: every kept line before it was accepted
MapReached(k) ==
    /\ k \in 1..Len(MapKept(args.fh))
    /\ \A j \in 1..(k - 1) : MapGood(MapKept(args.fh)[j])
MapCalled == args.op = "id2file_from_map" /\ ret # <<>>

\* C1: a kept line without exactly two columns yields None when
\* it is the first kept line, and raises an exception when an earlier line
\* was accepted.
C1_BadColumnsRaiseAfterAccepted ==
    MapCalled =>
        \A k \in 1..Len(MapKept(args.fh)) :
            (MapReached(k) /\ Len(MapColumns(MapKept(args.fh)[k])) # 2) =>
                IF k = 1 THEN ret[1] = Return(None)
                ELSE ret[1].outcome = "raise"

\* C2: a two-column kept line whose path exists neither as given nor in the
\* directory of the mapping file yields None when it is the first kept line;
\* after an accepted line the call raises an error naming exactly that
\* path-field, and never returns the earlier pairs.
C2_MissingPath ==
    MapCalled =>
        \A k \in 1..Len(MapKept(args.fh)) :
            LET c == MapColumns(MapKept(args.fh)[k])
            IN (MapReached(k) /\ Len(c) = 2 /\ ~MapResolves(c[2])) =>
                   IF k = 1 THEN ret[1] = Return(None)
                   ELSE /\ ret[1].outcome = "raise"
                        /\ ret[1].exc = "ValueError"
                        /\ ret[1].text =
                             <<"Alignment file \"", c[2], "\" does not exist.">>

C2_Witness ==
    /\ MapCalled
    /\ \E k \in 2..Len(MapKept(args.fh)) :
           LET c == MapColumns(MapKept(args.fh)[k])
           IN MapReached(k) /\ Len(c) = 2 /\ ~MapResolves(c[2])
    /\ ret[1].outcome = "raise"

\* C3: when every kept line has two columns and a path that resolves, the
\* call returns one pair per kept line in file order, the path being the
\* path-field as given when that exists and else the path-field joined with
\* the directory of the mapping file passed in; no kept line gives None.
C3_PairsInFileOrder ==
    MapCalled =>
        LET kept == MapKept(args.fh)
        IN (\A k \in 1..Len(kept) : MapGood(kept[k])) =>
               ret[1] = Return(IF kept = <<>> THEN None
                               ELSE List([k \in 1..Len(kept) |-> MapPair(kept[k])]))

\* two pairs, the first resolved through the directory of the mapping file
\* into a subdirectory, the second through that same directory
C3_Witness ==
    /\ MapCalled
    /\ ret[1].outcome = "return"
    /\ ret[1].value.kind = "list"
    /\ Len(ret[1].value.value) >= 2
    /\ ret[1].value.value[1][2] = <<"d", "/", "s", "/", "x">>
    /\ ret[1].value.value[2][2] = <<"d", "/", "y">>
(***************************************************************************)
(* file2stem, id2file_from_dir                                             *)
(***************************************************************************)
ZIPDIC ==
    { <<".", "g", "z">>, <<".", "g", "z", "i", "p">>, <<".", "b", "z", "2">>,
      <<".", "b", "z", "i", "p", "2">>, <<".", "x", "z">>, <<".", "l", "z">>,
      <<".", "l", "z", "m", "a">> }

\* posixpath.splitext: the last dot of the last component splits it, unless
\* only dots precede it there
splitext(p) ==
    LET sepIndex == rfind1(p, "/")
        dotIndex == rfind1(p, ".")
    IN IF dotIndex > sepIndex
          /\ \E k \in (sepIndex + 1)..(dotIndex - 1) : p[k] # "."
       THEN <<SubSeq(p, 1, dotIndex - 1), SubSeq(p, dotIndex, Len(p))>>
       ELSE <<p, <<>>>>

\* fname[:-len(ext)]; a slice [:-0] is the empty string
strip_suffix(fname, n) ==
    IF n = 0 THEN <<>> ELSE SubSeq(fname, 1, Len(fname) - n)

file2stem(fname, ext) ==
    IF ext.kind # "None"
    THEN IF ~endswith(fname, ext.value)
         THEN Raise("ValueError",
                    <<"Filepath and filename extension do not match.">>)
         ELSE Return(strip_suffix(fname, Len(ext.value)))
    ELSE LET first == splitext(fname)
         IN IF first[2] \in ZIPDIC THEN Return(splitext(first[1])[1])
            ELSE Return(first[1])

\* "x in ids" for a list
in_list(x, l) == \E i \in 1..Len(l) : l[i] = x

dir_init == [res |-> <<>>, out |-> [outcome |-> "none"]]

\* (variants: a taken ID is overwritten; a taken ID is kept)
dir_add_last_wins(st, id_, fname) ==
    [st EXCEPT !.res = [k \in (DOMAIN st.res) \cup {id_} |->
                            IF k = id_ THEN fname ELSE st.res[k]]]
dir_add_first_wins(st, id_, fname) ==
    IF id_ \in DOMAIN st.res THEN st
    ELSE [st EXCEPT !.res = [k \in (DOMAIN st.res) \cup {id_} |->
                                 IF k = id_ THEN fname ELSE st.res[k]]]
\* the ID is new: res[id_] = fname; it is taken: raise
dir_add(st, id_, fname) ==
    IF id_ \in DOMAIN st.res
    THEN [st EXCEPT !.out =
              Raise("ValueError", <<"Ambiguous files for ID: \"", id_, "\".">>)]
    ELSE [st EXCEPT !.res = [k \in (DOMAIN st.res) \cup {id_} |->
                                 IF k = id_ THEN fname ELSE st.res[k]]]

\* the body of the loop for one entry of the listing
dir_entry(st, entry, ext, ids) ==
    IF ~entry.regular THEN st
    ELSE LET stem == file2stem(entry.name, ext)
         IN IF stem.outcome = "raise" THEN st
            ELSE IF ids.kind # "None" /\ ids.value # <<>>
                    /\ ~in_list(stem.value, ids.value) THEN st
            ELSE dir_add(st, stem.value, entry.name)

RECURSIVE dir_loop(_, _, _, _, _)
dir_loop(st, listing, i, ext, ids) ==
    IF st.out.outcome # "none" THEN st.out
    ELSE IF i > Len(listing) THEN Return(Dict(st.res))
    ELSE dir_loop(dir_entry(st, listing[i], ext, ids), listing, i + 1, ext, ids)

\* listing: what listdir(dir_) returned, each name with what isfile says of it
id2file_from_dir(listing, ext, ids) == dir_loop(dir_init, listing, 1, ext, ids)

\* --- inputs -------------------------------------------------------------
DirEntries ==
    { [name |-> <<"a", ".", "t", "s", "v">>, regular |-> TRUE],
      [name |-> <<"a", ".", "t", "x", "t">>, regular |-> TRUE],
      [name |-> <<"b", ".", "t", "s", "v">>, regular |-> TRUE],
      [name |-> <<"b", ".", "t", "s", "v", ".", "g", "z">>, regular |-> TRUE],
      [name |-> <<"a", ".", "d">>, regular |-> FALSE] }
DirExts ==
    { None, Str(<<".", "t", "s", "v">>), Str(<<".", "g", "z">>), Str(<<>>) }
DirIds == { None, List(<<>>), List(<<<<"a">>>>), List(<<<<"b">>, <<"a">>>>) }

\* the orders in which a directory can be listed
Listings(S) ==
    {l \in [1..Cardinality(S) -> S] : \A i, j \in DOMAIN l : l[i] = l[j] => i = j}

InitDir ==
    /\ args \in [op : {"id2file_from_dir"},
                 dir_ : {S \in SUBSET DirEntries : Cardinality(S) <= MaxDirEntries},
                 ext : DirExts, ids : DirIds]
    /\ env = <<>>
    /\ ret = <<>>

\* one call; the order of the listing is the operating system's choice
CallDir ==
    /\ args.op = "id2file_from_dir"
    /\ Len(ret) < MaxScans
    /\ \E listing \in Listings(args.dir_) :
           /\ env' = <<listing>>
           /\ ret' = Append(ret, id2file_from_dir(listing, args.ext, args.ids))
    /\ UNCHANGED args

SpecDir == InitDir /\ [][CallDir]_vars

\* --- the directory as the claims describe it ------------------------------
DirCalled == args.op = "id2file_from_dir" /\ ret # <<>>
\* the entries that are regular files, pass the extension and the allow-list
DirPasses(e) ==
    /\ e.regular
    /\ file2stem(e.name, args.ext).outcome = "return"
    /\ (args.ids.kind # "None" /\ args.ids.value # <<>>)
           => in_list(file2stem(e.name, args.ext).value, args.ids.value)
DirPassing == {e \in args.dir_ : DirPasses(e)}
DirId(e) == file2stem(e.name, args.ext).value
\* the IDs that two passing entries derive
DirAmbiguous ==
    {DirId(e) : e \in {e1 \in DirPassing :
                          \E e2 \in DirPassing : e2 # e1 /\ DirId(e2) = DirId(e1)}}
DirAmbiguityError(r) ==
    /\ r.outcome = "raise"
    /\ r.exc = "ValueError"
    /\ \E id_ \in DirAmbiguous :
           r.text = <<"Ambiguous files for ID: \"", id_, "\".">>

\* C6 (as claimed): two scans of the same directory, whatever the orders of
\* their listings, have the identical outcome: the same map, or an ambiguity
\* error naming the same Sample ID.
C6_SameOutcomeAnyOrder ==
    (args.op = "id2file_from_dir" /\ Len(ret) >= 2) => ret[1] = ret[2]

\* C6 (amended): two scans of the same directory either both return the same
\* map or both raise an ambiguity error, each naming an ID that two passing
\* entries share; the named ID is the same when only one ID is ambiguous.
C6_SameMapOrBothAmbiguous ==
    (args.op = "id2file_from_dir" /\ Len(ret) >= 2) =>
        /\ ret[1].outcome = ret[2].outcome
        /\ ret[1].outcome = "return" => ret[1] = ret[2]
        /\ ret[1].outcome = "raise" =>
               DirAmbiguityError(ret[1]) /\ DirAmbiguityError(ret[2])
        /\ Cardinality(DirAmbiguous) <= 1 => ret[1] = ret[2]

\* two scans whose listings met two ambiguous IDs in different orders
C6_Witness ==
    /\ args.op = "id2file_from_dir" /\ Len(ret) >= 2
    /\ DirAmbiguityError(ret[1]) /\ DirAmbiguityError(ret[2])
    /\ ret[1] # ret[2]

\* C7: when two passing entries derive the same ID the call raises an error
\* naming an ID so shared and returns no map; a returned map holds each
\* passing entry under its own ID; entries left out by the extension or the
\* allow-list never cause an error.
C7_CollisionRaises ==
    DirCalled =>
        \A n \in 1..Len(ret) :
            /\ DirAmbiguous # {} => DirAmbiguityError(ret[n])
            /\ DirAmbiguous = {} =>
                   /\ ret[n].outcome = "return"
                   /\ ret[n].value.kind = "dict"
                   /\ DOMAIN ret[n].value.value = {DirId(e) : e \in DirPassing}
                   /\ \A e \in DirPassing : ret[n].value.value[DirId(e)] = e.name

\* a collision among passing entries beside an entry the filters left out
C7_Witness ==
    /\ DirCalled
    /\ DirAmbiguous # {}
    /\ \E e \in args.dir_ : e.regular /\ ~DirPasses(e)
    /\ ret[1].outcome = "raise"
(***************************************************************************)
(* read_map                                                                *)
(***************************************************************************)
isdigit(c) == c \in {"0", "1", "2", "3", "4", "5", "6", "7", "8", "9"}

RECURSIVE int_of(_)
int_of(s) ==
    IF s = <<>> THEN 0
    ELSE 10 * int_of(SubSeq(s, 1, Len(s) - 1)) + (Ord(s[Len(s)]) - Ord("0"))

\* util.feat_n_cnt: "value:count" -> (value, count), else (value, 1)
feat_n_cnt(s) ==
    LET i == rfind1(s, ":")
        y == SubSeq(s, i + 1, Len(s))
    IN IF i > 0 /\ y # <<>> /\ \A k \in 1..Len(y) : isdigit(y[k])
       THEN <<SubSeq(s, 1, i - 1), int_of(y)>>
       ELSE <<s, 1>>

read_map_value(x, count) == IF count THEN feat_n_cnt(x) ELSE x

\* (variant: extra columns are never a reason to skip)
read_map_row_keeps_extra(row, multi, count) ==
    LET n == Len(row)
    IN IF n = 1 THEN <<>>
       ELSE IF multi # "True"
       THEN << <<row[1], read_map_value(row[2], count)>> >>
       ELSE << <<row[1], [i \in 1..(n - 1) |-> read_map_value(row[i + 1], count)]>> >>
\* what one row yields: nothing, or one (key, value-or-values) pair;
\* multi is "None", "False" or "True"
read_map_row(row, multi, count) ==
    LET n == Len(row)
    IN IF n = 1 THEN <<>>
       ELSE IF multi # "True"
       THEN IF n > 2 /\ multi = "None" THEN <<>>
            ELSE << <<row[1], read_map_value(row[2], count)>> >>
       ELSE << <<row[1], [i \in 1..(n - 1) |-> read_map_value(row[i + 1], count)]>> >>

\* one next() of the generator with pos lines of fh already taken: the lines
\* are read up to and including the first that yields (out = <<pair>>), or to
\* the end of fh (out = <<>>, StopIteration)
RECURSIVE read_map_next(_, _, _, _, _)
read_map_next(fh, pos, sep, multi, count) ==
    IF pos >= Len(fh) THEN [pos |-> pos, out |-> <<>>]
    ELSE LET y == read_map_row(split(rstrip(fh[pos + 1]), sep), multi, count)
         IN IF y = <<>> THEN read_map_next(fh, pos + 1, sep, multi, count)
            ELSE [pos |-> pos + 1, out |-> y]

\* list(read_map(fh, ...)): the pairs of a generator consumed to its end
\* with nobody else touching fh
RECURSIVE read_map(_, _, _, _)
read_map(fh, sep, multi, count) ==
    IF fh = <<>> THEN <<>>
    ELSE read_map_row(split(rstrip(Head(fh)), sep), multi, count)
             \o read_map(Tail(fh), sep, multi, count)

\* --- inputs -------------------------------------------------------------
ReadMapLines ==
    { <<"k">>, <<"k", TAB, "v", " ", "\f", "\n">>, <<"k", TAB, "v", TAB, "w">>,
      <<"k", TAB, TAB, "w">>, <<"k", TAB, "v", "\f", TAB, "w">>,
      <<"r", TAB, "x", ":", "2", TAB>>, <<"k", ",", "v">> }
\* the lines the consumer may add to fh while the generator is suspended
AppendedLines == { <<"k">>, <<"k", TAB, "z", "\n">> }

InitReadMap ==
    /\ args \in [op : {"read_map"}, fh : SeqUpTo(ReadMapLines, MaxLines),
                 sep : {TAB, ","}, multi : {"None", "False", "True"},
                 count : BOOLEAN]
    /\ env = <<>>
    /\ ret = <<>>

\* what next() gives the consumer at a yield
Yield(v) == [outcome |-> "yield", value |-> v]

\* read_map(fh, ...) is called: a generator is created and no line is read.
\* env[1] is the generator and the stream it shares with its consumer: the
\* lines of fh, how many of them have been taken, the lines the generator
\* itself has read, and whether the consumer has touched fh
CallReadMap ==
    /\ args.op = "read_map"
    /\ env = <<>>
    /\ env' = <<[gen |-> "created", fh |-> args.fh, pos |-> 0, read |-> <<>>,
                 disturbed |-> FALSE]>>
    /\ UNCHANGED <<args, ret>>

\* one next() by the consumer: the generator runs to its next yield or to
\* the end of fh
NextReadMap ==
    /\ args.op = "read_map"
    /\ env # <<>>
    /\ env[1].gen # "done"
    /\ LET g == env[1]
           r == read_map_next(g.fh, g.pos, args.sep, args.multi, args.count)
       IN /\ env' = <<[g EXCEPT !.gen = IF r.out = <<>> THEN "done"
                                                        ELSE "suspended",
                                 !.pos = r.pos,
                                 !.read = @ \o SubSeq(g.fh, g.pos + 1, r.pos)]>>
          /\ ret' = Append(ret, IF r.out = <<>>
                                 THEN Raise("StopIteration", <<>>)
                                 ELSE Yield(r.out[1]))
    /\ UNCHANGED args

\* between two next(), the consumer takes a line from fh itself
ConsumerReads ==
    /\ args.op = "read_map"
    /\ env # <<>>
    /\ env[1].gen # "done"
    /\ ~env[1].disturbed
    /\ env[1].pos < Len(env[1].fh)
    /\ env' = <<[env[1] EXCEPT !.pos = @ + 1, !.disturbed = TRUE]>>
    /\ UNCHANGED <<args, ret>>

\* between two next(), the consumer adds a line to fh
ConsumerAppends ==
    /\ args.op = "read_map"
    /\ env # <<>>
    /\ env[1].gen # "done"
    /\ ~env[1].disturbed
    /\ Len(env[1].fh) < MaxLines
    /\ \E l \in AppendedLines :
           env' = <<[env[1] EXCEPT !.fh = Append(@, l), !.disturbed = TRUE]>>
    /\ UNCHANGED <<args, ret>>

NextReadMapOrConsumer ==
    CallReadMap \/ NextReadMap \/ ConsumerReads \/ ConsumerAppends

SpecReadMap == InitReadMap /\ [][NextReadMapOrConsumer]_vars

\* --- the input as the claim describes it ----------------------------------
ReadMapCalled == args.op = "read_map" /\ env # <<>>
\* the pairs yielded so far
ReadMapYielded ==
    LET n == IF ret # <<>> /\ ret[Len(ret)].outcome = "raise"
             THEN Len(ret) - 1 ELSE Len(ret)
    IN [k \in 1..n |-> ret[k].value]
\* the columns of a line, trailing whitespace stripped
ReadMapColumns(l) == split(rstrip(l), args.sep)
ReadMapAccepted(l) ==
    /\ Len(ReadMapColumns(l)) >= 2
    /\ args.multi = "None" => Len(ReadMapColumns(l)) = 2
ReadMapVal(x) == IF args.count THEN feat_n_cnt(x) ELSE x
ReadMapPair(l) ==
    LET c == ReadMapColumns(l)
    IN IF args.multi = "True"
       THEN <<c[1], [i \in 1..(Len(c) - 1) |-> ReadMapVal(c[i + 1])]>>
       ELSE <<c[1], ReadMapVal(c[2])>>
\* one pair per accepted line among the lines the generator has read, in
\* the order read, duplicates kept; the generator is suspended right after an
\* accepted line, and ends only with fh exhausted, having read every line
\* of the input when the consumer left fh alone
ReadMapOnePairPerLine ==
    LET g == env[1]
        acc == SelectSeq(g.read, ReadMapAccepted)
    IN /\ ReadMapYielded = [k \in 1..Len(acc) |-> ReadMapPair(acc[k])]
       /\ g.gen = "created" => g.read = <<>>
       /\ g.gen = "suspended" => ReadMapAccepted(g.read[Len(g.read)])
       /\ g.gen = "done" => g.pos = Len(g.fh)
       /\ (g.gen = "done" /\ ~g.disturbed) => g.read = args.fh
\* the line made of the first two columns of l alone
ReadMapFirstTwo(l) ==
    str_join(args.sep, SubSeq(ReadMapColumns(l), 1, 2))
\* l has more than two columns and, in single mode, parses to the pair its
\* first two columns alone parse to
ReadMapSameAsFirstTwo(l) ==
    read_map(<<l>>, args.sep, "False", args.count)
        = read_map(<<ReadMapFirstTwo(l)>>, args.sep, "False", args.count)
ReadMapCleanSecond(l) ==
    LET c == ReadMapColumns(l)
    IN c[2] # <<>> /\ ~isspace(c[2][Len(c[2])])

\* C8 (as claimed): one pair per accepted line, in input order and without
\* deduplication, acceptance depending on mode and column count alone; a
\* line with more than two columns parses in single mode to the same pair as
\* its first two columns alone.
C8_PairsAndFirstTwoColumns ==
    ReadMapCalled =>
        /\ ReadMapOnePairPerLine
        /\ \A i \in 1..Len(env[1].read) :
               Len(ReadMapColumns(env[1].read[i])) > 2 =>
                   ReadMapSameAsFirstTwo(env[1].read[i])

\* C8 (amended): with the columns counted after trailing whitespace (trailing
\* tabs included) is stripped from the line, one pair per accepted line as
\* claimed; a line with more than two columns parses in single mode to the
\* same pair as its first two columns alone provided its second column is
\* not empty and does not end in whitespace.
C8_PairsAndCleanFirstTwoColumns ==
    ReadMapCalled =>
        /\ ReadMapOnePairPerLine
        /\ \A i \in 1..Len(env[1].read) :
               (Len(ReadMapColumns(env[1].read[i])) > 2
                    /\ ReadMapCleanSecond(env[1].read[i])) =>
                   ReadMapSameAsFirstTwo(env[1].read[i])

\* single mode over a line of three columns, after a line that was skipped,
\* and the same line twice
C8_Witness ==
    /\ ReadMapCalled
    /\ env[1].gen = "done"
    /\ ~env[1].disturbed
    /\ args.multi = "False"
    /\ Len(args.fh) = 3
    /\ Len(ReadMapColumns(args.fh[1])) = 1
    /\ Len(ReadMapColumns(args.fh[2])) > 2
    /\ ReadMapCleanSecond(args.fh[2])
    /\ args.fh[3] = args.fh[2]
    /\ Len(ReadMapYielded) = 2
    /\ Len(ret) = 3
(***************************************************************************)
(* write_readmap                                                           *)
(***************************************************************************)
\* str(n) for n >= 0
RECURSIVE int_to_str(_)
int_to_str(n) ==
    LET digit == <<"0", "1", "2", "3", "4", "5", "6", "7", "8", "9">>[(n % 10) + 1]
    IN IF n < 10 THEN <<digit>> ELSE int_to_str(n \div 10) \o <<digit>>

\* "x and k in x" for an optional dict x
has_key(dic, k) ==
    dic.kind = "dict" /\ DOMAIN dic.value # {} /\ k \in DOMAIN dic.value

\* sortkey(x) = (-x[1], x[0]) of an item (taxon, count), and tuple order
sortkey(x) == <<0 - x[2], x[1]>>
sortkey_lt(j, k) == j[1] < k[1] \/ (j[1] = k[1] /\ str_lt(j[2], k[2]))

\* sorted(items, key=sortkey): a stable insertion of each item in turn
RECURSIVE insert_item(_, _)
insert_item(sorted, x) ==
    IF sorted = <<>> THEN <<x>>
    ELSE IF sortkey_lt(sortkey(x), sortkey(Head(sorted)))
    THEN <<x>> \o sorted
    ELSE <<Head(sorted)>> \o insert_item(Tail(sorted), x)
RECURSIVE sorted_items(_)
sorted_items(items) ==
    IF items = <<>> THEN <<>>
    ELSE insert_item(sorted_items(SubSeq(items, 1, Len(items) - 1)),
                     items[Len(items)])

taxon_label(taxon, namedic) ==
    IF has_key(namedic, taxon) THEN namedic.value[taxon] ELSE taxon

\* (variant: names are substituted before the sort)
readmap_entries_sort_labels(items, namedic) ==
    LET named == [i \in 1..Len(items) |->
                      <<taxon_label(items[i][1], namedic), items[i][2]>>]
        srt == sorted_items(named)
    IN [i \in 1..Len(srt) |-> srt[i][1] \o <<":">> \o int_to_str(srt[i][2])]
\* the entries of a read whose target is a dict: sort, then substitute names
readmap_entries(items, namedic) ==
    LET srt == sorted_items(items)
    IN [i \in 1..Len(srt) |->
            taxon_label(srt[i][1], namedic) \o <<":">> \o int_to_str(srt[i][2])]

\* the line printed for one read
readmap_line(read, taxa, namedic) ==
    str_join(TAB,
        IF taxa.kind = "dict" THEN <<read>> \o readmap_entries(taxa.value, namedic)
        ELSE <<read, taxon_label(taxa.value, namedic)>>)

\* rmap: the items of the dict in its order; the result: the lines printed
write_readmap(rmap, namedic) ==
    [i \in 1..Len(rmap) |-> readmap_line(rmap[i][1], rmap[i][2], namedic)]

\* --- inputs -------------------------------------------------------------
ReadId(i) == <<"r">> \o int_to_str(i)
TaxonCounts == {2, 5}
\* targets: a taxon, or the items of a dict of taxa in insertion order
ReadTargets ==
    {Str(<<"a">>), DictItems(<<>>)}
    \cup {DictItems(<< <<<<"c">>, m>>, <<<<"b">>, n>> >>) : m, n \in TaxonCounts}
    \cup {DictItems(<< <<<<"a">>, l>>, <<<<"c">>, m>>, <<<<"b">>, n>> >>) :
              l, m, n \in TaxonCounts}
NameDics ==
    { None, Dict(<<>>),
      Dict([t \in {<<"b">>} |-> <<"z">>]),
      Dict([t \in {<<"a">>, <<"c">>} |-> IF t = <<"a">> THEN <<"c">> ELSE <<"a">>]) }

InitWriteReadmap ==
    /\ args \in [op : {"write_readmap"},
                 rmap : {[i \in 1..Len(t) |-> <<ReadId(i), t[i]>>] :
                             t \in SeqUpTo(ReadTargets, MaxReads)},
                 namedic : NameDics]
    /\ env = <<>>
    /\ ret = <<>>
CallWriteReadmap ==
    /\ args.op = "write_readmap"
    /\ ret = <<>>
    /\ ret' = <<Return(List(write_readmap(args.rmap, args.namedic)))>>
    /\ UNCHANGED <<args, env>>

SpecWriteReadmap == InitWriteReadmap /\ [][CallWriteReadmap]_vars

\* --- the output as the claim describes it ---------------------------------
ReadmapCalled == args.op = "write_readmap" /\ ret # <<>>
\* items p[1], p[2], ... stand in order of descending count, ties in
\* ascending order of the feature identifier itself
ReadmapOrdered(p) ==
    \A i \in 1..(Len(p) - 1) :
        \/ p[i][2] > p[i + 1][2]
        \/ p[i][2] = p[i + 1][2] /\ str_lt(p[i][1], p[i + 1][1])
ReadmapShown(taxon) ==
    IF args.namedic.kind = "dict" /\ taxon \in DOMAIN args.namedic.value
    THEN args.namedic.value[taxon] ELSE taxon
ReadmapExpectedLine(read, p) ==
    str_join(TAB, <<read>> \o [i \in 1..Len(p) |->
                        ReadmapShown(p[i][1]) \o <<":">> \o int_to_str(p[i][2])])

\* C9: for a read whose target is a feature-to-count mapping, the entries
\* after the read identifier stand in order of descending count, ties by
\* ascending feature identifier before name substitution; the name lookup
\* decides the labels shown and nothing else.
C9_SortedBeforeSubstitution ==
    ReadmapCalled =>
        \A i \in 1..Len(args.rmap) :
            args.rmap[i][2].kind = "dict" =>
                LET items == args.rmap[i][2].value
                IN \E p \in Listings({items[k] : k \in 1..Len(items)}) :
                       /\ ReadmapOrdered(p)
                       /\ ret[1].value.value[i] =
                              ReadmapExpectedLine(args.rmap[i][1], p)

\* a tie between b and c, and names that order the other way round
C9_Witness ==
    /\ ReadmapCalled
    /\ has_key(args.namedic, <<"b">>)
    /\ \E i \in 1..Len(args.rmap) :
           /\ args.rmap[i][2] = DictItems(<< <<<<"a">>, 2>>, <<<<"c">>, 5>>, <<<<"b">>, 5>> >>)
           /\ split(ret[1].value.value[i], TAB)
                  = <<args.rmap[i][1], <<"z", ":", "5">>, <<"c", ":", "5">>,
                      <<"a", ":", "2">> >>
(***************************************************************************)
(* write_table, prep_table                                                 *)
(*                                                                         *)
(* A profile is a function from sample IDs to functions from feature keys  *)
(* to counts.  A plain key is <<feature>>, a stratified key                *)
(* <<stratum, feature>>; the keys of one profile are all of one kind       *)
(* (sorted() cannot compare a str with a tuple).                           *)
(***************************************************************************)
FeatureID == <<"#", "F", "e", "a", "t", "u", "r", "e", "I", "D">>
NameCol == <<"N", "a", "m", "e">>
RankCol == <<"R", "a", "n", "k">>
LineageCol == <<"L", "i", "n", "e", "a", "g", "e">>

\* bool(x) of an optional dict or str
truthy(x) ==
    CASE x.kind = "None" -> FALSE
      [] x.kind = "dict" -> DOMAIN x.value # {}
      [] x.kind = "list" -> x.value # <<>>
      [] x.kind = "str" -> x.value # <<>>

\* util.allkeys: the union of the keys of all samples
allkeys(data) == UNION {DOMAIN data[x] : x \in DOMAIN data}

\* tree.lineage_str: the ancestors below the root down to the taxon, joined
\* by ";", shown by name where a name lookup is passed and holds one
RECURSIVE lineage(_, _)
lineage(taxon, tree) ==
    IF taxon \notin DOMAIN tree.value \/ tree.value[taxon] = taxon THEN <<>>
    ELSE lineage(tree.value[taxon], tree) \o <<taxon>>
lineage_str(taxon, tree, namedic) ==
    LET l == lineage(taxon, tree)
    IN str_join(";", [i \in 1..Len(l) |->
                          IF has_key(namedic, l[i]) THEN namedic.value[l[i]]
                          ELSE l[i]])

\* tuple (or str) order of two keys of the same kind
key_lt(j, k) ==
    \/ str_lt(j[1], k[1])
    \/ Len(j) = 2 /\ j[1] = k[1] /\ str_lt(j[2], k[2])

\* sorted(S) for a set of sample IDs, and for a set of keys
RECURSIVE sorted_strs(_)
sorted_strs(S) ==
    IF S = {} THEN <<>>
    ELSE LET least == CHOOSE x \in S : \A y \in S \ {x} : str_lt(x, y)
         IN <<least>> \o sorted_strs(S \ {least})
RECURSIVE sorted_keys(_)
sorted_keys(S) ==
    IF S = {} THEN <<>>
    ELSE LET least == CHOOSE x \in S : \A y \in S \ {x} : key_lt(x, y)
         IN <<least>> \o sorted_keys(S \ {least})

in_profile(x, data) == x \in DOMAIN data

\* (variant: the list given is taken as it is)
active_samples_unfiltered(samples, data) ==
    IF truthy(samples) THEN samples.value ELSE sorted_strs(DOMAIN data)
\* the range and order of the samples
active_samples(samples, data) ==
    IF truthy(samples)
    THEN LET present(x) == in_profile(x, data)
         IN SelectSeq(samples.value, present)
    ELSE sorted_strs(DOMAIN data)

\* data[sample] for some sample of the list fails with KeyError
missing_sample(data, samples) ==
    \E i \in 1..Len(samples) : samples[i] \notin DOMAIN data

\* the counts of one key in the samples, 0 where the sample lacks the key
table_datum(data, samples, key) ==
    [i \in 1..Len(samples) |->
        IF key \in DOMAIN data[samples[i]] THEN data[samples[i]][key] ELSE 0]

key_stratum(key) == IF Len(key) = 2 THEN Str(key[1]) ELSE None
key_feature(key) == key[Len(key)]

\* namedic[feature] if namedic and feature in namedic else None
table_name(feature, namedic) ==
    IF has_key(namedic, feature) THEN Str(namedic.value[feature]) ELSE None

\* the row header: name or feature ID, behind "stratum|" if stratified
table_head(key, namedic, name_as_id) ==
    LET name == table_name(key_feature(key), namedic)
        head == IF name_as_id /\ truthy(name) THEN name.value
                ELSE key_feature(key)
    IN IF truthy(key_stratum(key)) THEN key_stratum(key).value \o <<"|">> \o head
       ELSE head

str_or_empty(x) == IF truthy(x) THEN x.value ELSE <<>>

table_rank(feature, rankdic) ==
    IF feature \in DOMAIN rankdic.value THEN rankdic.value[feature] ELSE <<>>

\* --- write_table ----------------------------------------------------------
write_header(samples, tree, rankdic, namedic, name_as_id) ==
    <<FeatureID>> \o samples
        \o (IF truthy(namedic) /\ ~name_as_id THEN <<NameCol>> ELSE <<>>)
        \o (IF truthy(rankdic) THEN <<RankCol>> ELSE <<>>)
        \o (IF truthy(tree) THEN <<LineageCol>> ELSE <<>>)

write_row(data, samples, key, tree, rankdic, namedic, name_as_id) ==
    LET feature == key_feature(key)
        datum == table_datum(data, samples, key)
    IN <<table_head(key, namedic, name_as_id)>>
        \o [i \in 1..Len(samples) |->
               IF key \in DOMAIN data[samples[i]] THEN int_to_str(datum[i])
               ELSE <<"0">>]
        \o (IF truthy(namedic) /\ ~name_as_id
            THEN <<str_or_empty(table_name(feature, namedic))>> ELSE <<>>)
        \o (IF truthy(rankdic) THEN <<table_rank(feature, rankdic)>> ELSE <<>>)
        \o (IF truthy(tree)
            THEN <<lineage_str(feature, tree, IF name_as_id THEN namedic ELSE None)>>
            ELSE <<>>)

\* the keys that get a row: every key of the profile
write_keys(data, samples) == sorted_keys(allkeys(data))

write_table(data, samples0, tree, rankdic, namedic, name_as_id) ==
    LET samples == active_samples(samples0, data)
        keys == write_keys(data, samples)
        header == str_join(TAB, write_header(samples, tree, rankdic, namedic, name_as_id))
    IN IF keys # <<>> /\ missing_sample(data, samples)
       THEN [outcome |-> "raise", exc |-> "KeyError", printed |-> <<header>>]
       ELSE [outcome |-> "return",
             value |-> <<Len(samples), Len(keys)>>,
             printed |-> <<header>> \o
                 [r \in 1..Len(keys) |->
                     str_join(TAB, write_row(data, samples, keys[r], tree, rankdic,
                                             namedic, name_as_id))]]

\* --- prep_table -----------------------------------------------------------
\* namecol = namedic and not name_as_id or None: True or None
prep_namecol(namedic, name_as_id) == truthy(namedic) /\ ~name_as_id

prep_metacols(tree, rankdic, namedic, name_as_id) ==
    (IF prep_namecol(namedic, name_as_id) THEN <<NameCol>> ELSE <<>>)
        \o (IF truthy(rankdic) THEN <<RankCol>> ELSE <<>>)
        \o (IF truthy(tree) THEN <<LineageCol>> ELSE <<>>)

\* "x and y": x itself when x is falsy, else y
py_and(x, y) == IF truthy(x) THEN y ELSE x

\* the three values before the filter: what "and" leaves of a lookup that is
\* falsy is the lookup itself, None or an empty dict
prep_metavalues(taxon, tree, rankdic, namedic, name_as_id) ==
    << IF prep_namecol(namedic, name_as_id)
       THEN Str(str_or_empty(table_name(taxon, namedic))) ELSE None,
       py_and(rankdic, Str(IF truthy(rankdic) THEN table_rank(taxon, rankdic) ELSE <<>>)),
       py_and(tree, Str(IF truthy(tree)
                        THEN lineage_str(taxon, tree,
                                         IF name_as_id THEN namedic ELSE None)
                        ELSE <<>>)) >>

\* filter(None.__ne__, values): the values that are not None
notnone(x) == x.kind # "None"

\* dict(zip(metacols, values)): pairs up to the shorter of the two
dict_zip(cols, values) ==
    LET n == IF Len(cols) < Len(values) THEN Len(cols) ELSE Len(values)
    IN [c \in {cols[i] : i \in 1..n} |->
            values[CHOOSE i \in 1..n : cols[i] = c /\ \A j \in (i + 1)..n : cols[j] # c]]

prep_metadatum(taxon, tree, rankdic, namedic, name_as_id) ==
    dict_zip(prep_metacols(tree, rankdic, namedic, name_as_id),
             SelectSeq(prep_metavalues(taxon, tree, rankdic, namedic, name_as_id),
                       notnone))

\* a key is retained when any(datum)
prep_retained(data, samples, key) ==
    \E i \in 1..Len(samples) : table_datum(data, samples, key)[i] # 0

prep_table(profile, samples0, tree, rankdic, namedic, name_as_id) ==
    LET samples == active_samples(samples0, profile)
        all == sorted_keys(allkeys(profile))
    IN IF all # <<>> /\ missing_sample(profile, samples)
       THEN [outcome |-> "raise", exc |-> "KeyError"]
       ELSE LET kept(key) == prep_retained(profile, samples, key)
                keys == SelectSeq(all, kept)
            IN [outcome |-> "return",
                value |->
                  [data |-> [r \in 1..Len(keys) |-> table_datum(profile, samples, keys[r])],
                   features |-> [r \in 1..Len(keys) |->
                                    table_head(keys[r], namedic, name_as_id)],
                   samples |-> samples,
                   metadata |-> [r \in 1..Len(keys) |->
                                    prep_metadatum(key_feature(keys[r]), tree, rankdic,
                                                   namedic, name_as_id)]]]
\* --- inputs -------------------------------------------------------------
S1 == <<"S", "1">>
S2 == <<"S", "2">>
S3 == <<"S", "3">>
SampleIds == {S1, S2, S3}
G1 == <<"G", "1">>
G2 == <<"G", "2">>
\* the keys of a profile: plain ones, or stratified ones whose tuple order
\* is not the order of their features
KeySets == { {<<G1>>, <<G2>>}, {<<<<"A">>, G2>>, <<<<"B">>, G1>>} }
TableCounts == {0, 3}
SparseCounts(K) == UNION {[T -> TableCounts] : T \in SUBSET K}
Profiles ==
    UNION {[D -> SparseCounts(K)] :
               D \in {X \in SUBSET SampleIds : Cardinality(X) <= MaxSamples},
               K \in KeySets}
SampleLists == { None, List(<<>>), List(<<S2, S1>>), List(<<S3, S1, S3>>) }

Tree1 == Dict([t \in {G1, G2, <<"1">>} |-> <<"1">>])
Ranks1 == Dict([t \in {G1} |-> <<"r">>])
Names1 == Dict([t \in {G1} |-> <<"z">>])

TableArgs(profiles, lists, trees, rankdics, namedics, flags) ==
    [op : {"table"}, profile : profiles, samples : lists, tree : trees,
     rankdic : rankdics, namedic : namedics, name_as_id : flags]

\* profiles and sample lists at large, the lookups all absent or all there
InitTable ==
    /\ args \in TableArgs(Profiles, SampleLists, {None}, {None}, {None}, {FALSE})
                \cup TableArgs(Profiles, SampleLists, {Tree1}, {Ranks1}, {Names1},
                               {FALSE})
    /\ env = <<>>
    /\ ret = <<>>

\* the lookups at large (absent, empty, filled), over a few profiles
MetaProfiles ==
    { [x \in {S1} |-> [k \in {<<G1>>} |-> 3]],
      [x \in {S1} |-> [k \in {<<G1>>, <<G2>>} |-> IF k = <<G1>> THEN 0 ELSE 3]],
      [x \in {S1, S2} |-> [k \in {<<G1>>, <<G2>>} |-> 3]] }
InitTableMeta ==
    /\ args \in TableArgs(MetaProfiles, {None}, {None, Dict(<<>>), Tree1},
                          {None, Dict(<<>>), Ranks1}, {None, Dict(<<>>), Names1},
                          BOOLEAN)
    /\ env = <<>>
    /\ ret = <<>>

Called(fn) == \E i \in 1..Len(ret) : ret[i].fn = fn

CallWriteTable ==
    /\ args.op = "table"
    /\ ~Called("write_table")
    /\ ret' = Append(ret, [fn |-> "write_table",
                           out |-> write_table(args.profile, args.samples, args.tree,
                                               args.rankdic, args.namedic,
                                               args.name_as_id)])
    /\ UNCHANGED <<args, env>>

CallPrepTable ==
    /\ args.op = "table"
    /\ ~Called("prep_table")
    /\ ret' = Append(ret, [fn |-> "prep_table",
                           out |-> prep_table(args.profile, args.samples, args.tree,
                                              args.rankdic, args.namedic,
                                              args.name_as_id)])
    /\ UNCHANGED <<args, env>>

NextTable == CallWriteTable \/ CallPrepTable
SpecTable == InitTable /\ [][NextTable]_vars
SpecTableMeta == InitTableMeta /\ [][NextTable]_vars

\* --- the table as the claims describe it ----------------------------------
\* the sample columns: the list given, if one is given and is not empty, cut
\* down to the samples of the profile; else all samples in ascending order
TableGiven == args.samples.kind = "list" /\ args.samples.value # <<>>
TableAscending(p) == \A i \in 1..(Len(p) - 1) : str_lt(p[i], p[i + 1])
TableInProfile(x) == x \in DOMAIN args.profile
TableColumnsAre(cols) ==
    IF TableGiven THEN cols = SelectSeq(args.samples.value, TableInProfile)
    ELSE /\ cols \in Listings(DOMAIN args.profile)
         /\ TableAscending(cols)
\* the sample columns, were an empty list taken as a list that is given
TableColumnsOfListAre(cols) ==
    IF args.samples.kind = "list"
    THEN cols = SelectSeq(args.samples.value, TableInProfile)
    ELSE /\ cols \in Listings(DOMAIN args.profile)
         /\ TableAscending(cols)
\* the cells of the lines write_table printed
TableCells(out) == [i \in 1..Len(out.printed) |-> split(out.printed[i], TAB)]
TableRows(out) == Tail(TableCells(out))
\* the sample columns of the header write_table printed
TableHeaderSamples(out) == SubSeq(TableCells(out)[1], 2, 1 + out.value[1])
\* the key has a nonzero count in a sample among cols
TableSignal(key, cols) ==
    \E i \in 1..Len(cols) :
        key \in DOMAIN args.profile[cols[i]] /\ args.profile[cols[i]][key] # 0
TableAllKeys == UNION {DOMAIN args.profile[x] : x \in DOMAIN args.profile}
TableLabel(key) ==
    IF Len(key) = 2 THEN key[1] \o <<"|">> \o key[2] ELSE key[1]
\* labels holds the label of every key of K once, and nothing else
TableRowsAre(labels, K) ==
    /\ Len(labels) = Cardinality(K)
    /\ \A k \in K : \E r \in 1..Len(labels) : labels[r] = TableLabel(k)

\* C4: in both entry points the rows are the keys that have a
\* nonzero count in some active sample, each once; a key whose count is 0 or
\* absent in every active sample has no row.
C4_BothDropZeroRows ==
    \A i \in 1..Len(ret) :
        (args.op = "table" /\ ret[i].out.outcome = "return") =>
            IF ret[i].fn = "write_table"
            THEN LET cols == TableHeaderSamples(ret[i].out)
                 IN TableRowsAre([r \in 1..Len(TableRows(ret[i].out)) |->
                                      TableRows(ret[i].out)[r][1]],
                                 {k \in TableAllKeys : TableSignal(k, cols)})
            ELSE TableRowsAre(ret[i].out.value.features,
                              {k \in TableAllKeys :
                                   TableSignal(k, ret[i].out.value.samples)})

\* C5 (as claimed): the sample columns are the list supplied, cut down to
\* the samples of the Profile in the caller's order, whenever a list is
\* supplied, and all samples in lexicographic order otherwise; every active
\* sample has its column in every row; no sample absent from the Profile is
\* looked up.
C5_ColumnsOfSuppliedList ==
    \A i \in 1..Len(ret) :
        args.op = "table" =>
            /\ ret[i].out.outcome = "return"
            /\ IF ret[i].fn = "write_table"
               THEN /\ TableColumnsOfListAre(TableHeaderSamples(ret[i].out))
                    /\ \A r \in 1..Len(TableCells(ret[i].out)) :
                           Len(TableCells(ret[i].out)[r])
                               = Len(TableCells(ret[i].out)[1])
               ELSE /\ TableColumnsOfListAre(ret[i].out.value.samples)
                    /\ \A r \in 1..Len(ret[i].out.value.data) :
                           Len(ret[i].out.value.data[r])
                               = Len(ret[i].out.value.samples)

\* C5 (amended): as claimed, for a list that is supplied and not empty; an
\* empty list counts as no list: all samples, in lexicographic order.
C5_ColumnsOfNonEmptyList ==
    \A i \in 1..Len(ret) :
        args.op = "table" =>
            /\ ret[i].out.outcome = "return"
            /\ IF ret[i].fn = "write_table"
               THEN /\ TableColumnsAre(TableHeaderSamples(ret[i].out))
                    /\ \A r \in 1..Len(TableCells(ret[i].out)) :
                           Len(TableCells(ret[i].out)[r])
                               = Len(TableCells(ret[i].out)[1])
               ELSE /\ TableColumnsAre(ret[i].out.value.samples)
                    /\ \A r \in 1..Len(ret[i].out.value.data) :
                           Len(ret[i].out.value.data[r])
                               = Len(ret[i].out.value.samples)

\* a list naming a sample the Profile lacks and one whose counts are all 0
C5_Witness ==
    /\ args.op = "table" /\ Len(ret) = 2
    /\ args.samples = List(<<S3, S1, S3>>)
    /\ DOMAIN args.profile = {S1, S2}
    /\ \A k \in DOMAIN args.profile[S1] : args.profile[S1][k] = 0
    /\ TableSignal(<<G1>>, <<S2>>)
    /\ \A i \in 1..2 : ret[i].out.outcome = "return"

\* the metadata columns in use
TableMetaCols ==
    (IF truthy(args.namedic) /\ ~args.name_as_id THEN {NameCol} ELSE {})
        \cup (IF truthy(args.rankdic) THEN {RankCol} ELSE {})
        \cup (IF truthy(args.tree) THEN {LineageCol} ELSE {})
\* the feature of the r-th row prep_table retained
TableRetained(out) ==
    LET has(key) == TableSignal(key, out.value.samples)
    IN SelectSeq(sorted_keys(TableAllKeys), has)
TableOwnValue(col, feature) ==
    CASE col = NameCol ->
             IF feature \in DOMAIN args.namedic.value
             THEN args.namedic.value[feature] ELSE <<>>
      [] col = RankCol ->
             IF feature \in DOMAIN args.rankdic.value
             THEN args.rankdic.value[feature] ELSE <<>>
      [] col = LineageCol ->
             lineage_str(feature, args.tree,
                         IF args.name_as_id THEN args.namedic ELSE None)

\* C10: the metadata mapping of every retained feature has as keys exactly
\* the metadata columns in use, the columns write_table puts in its header,
\* and each key maps to the value of its own column: a string, never the
\* value of another column or a lookup object.
C10_MetadataOwnColumns ==
    \A i \in 1..Len(ret) :
        (args.op = "table" /\ ret[i].out.outcome = "return") =>
            IF ret[i].fn = "write_table"
            THEN LET head == TableCells(ret[i].out)[1]
                     n == ret[i].out.value[1]
                 IN {head[c] : c \in (n + 2)..Len(head)} = TableMetaCols
            ELSE \A r \in 1..Len(ret[i].out.value.metadata) :
                     LET md == ret[i].out.value.metadata[r]
                         feature == key_feature(TableRetained(ret[i].out)[r])
                     IN /\ DOMAIN md = TableMetaCols
                        /\ \A col \in DOMAIN md :
                               /\ md[col].kind = "str"
                               /\ md[col].value = TableOwnValue(col, feature)
(***************************************************************************)
(* The module as a whole: one call of one of its functions on arguments    *)
(* of its own.                                                             *)
(***************************************************************************)
Init ==
    \/ InitMap
    \/ InitDir
    \/ InitReadMap
    \/ InitWriteReadmap
    \/ InitTable
    \/ InitTableMeta

Next ==
    \/ CallMap
    \/ CallDir
    \/ CallReadMap
    \/ NextReadMap
    \/ ConsumerReads
    \/ ConsumerAppends
    \/ CallWriteReadmap
    \/ CallWriteTable
    \/ CallPrepTable

Spec == Init /\ [][Next]_vars
====
